---- MODULE Spec2Model ----
(***************************************************************************)
(* Model of packages/wrangler/src/cloudchamber/images/list.ts: the         *)
(* `images list` and `images delete` commands against the Cloudflare       *)
(* managed registry.  Strings are sequences of one-character strings so    *)
(* that includes/split/startsWith/replace/padEnd are computed as the       *)
(* JavaScript code computes them.  One behaviour is one CLI invocation.    *)
(***************************************************************************)
EXTENDS Integers, Sequences, FiniteSets, TLC

\* Longest repository catalog the registry returns in the model.
MaxRepos == 2

----------------------------------------------------------------------------
\* String helpers (JavaScript String.prototype semantics)

RECURSIVE IndexOfFrom(_, _, _)
\* s.indexOf(c, i) for a one-character c, 1-based; 0 when absent
IndexOfFrom(s, c, i) ==
    IF i > Len(s) THEN 0
    ELSE IF s[i] = c THEN i
    ELSE IndexOfFrom(s, c, i + 1)

\* s.includes(c)
Includes(s, c) == IndexOfFrom(s, c, 1) # 0

RECURSIVE Split(_, _)
\* s.split(c): every occurrence of c separates two pieces
Split(s, c) ==
    LET i == IndexOfFrom(s, c, 1)
    IN  IF i = 0 THEN <<s>>
        ELSE <<SubSeq(s, 1, i - 1)>> \o Split(SubSeq(s, i + 1, Len(s)), c)

\* s.startsWith(p)
StartsWith(s, p) == Len(p) <= Len(s) /\ SubSeq(s, 1, Len(p)) = p

RECURSIVE MatchAt(_, _, _)
\* first position >= i at which the literal lit occurs in s; 0 when none
MatchAt(s, lit, i) ==
    IF i + Len(lit) - 1 > Len(s) THEN 0
    ELSE IF SubSeq(s, i, i + Len(lit) - 1) = lit THEN i
    ELSE MatchAt(s, lit, i + 1)

\* A compiled RegExp of the shapes the model uses: a literal, optionally
\* anchored with ^.  RegExp.prototype.test without the g flag.
RegexTest(re, s) ==
    IF re.anchored THEN StartsWith(s, re.lit) ELSE MatchAt(s, re.lit, 1) # 0

\* s.replace(re, ""): removes the first match only (no g flag)
RegexReplace(s, re) ==
    LET i == IF re.anchored
             THEN (IF StartsWith(s, re.lit) THEN 1 ELSE 0)
             ELSE MatchAt(s, re.lit, 1)
    IN  IF i = 0 THEN s
        ELSE SubSeq(s, 1, i - 1) \o SubSeq(s, i + Len(re.lit), Len(s))

RECURSIVE StripLeadingSlashes(_)
\* repo.replace(/^\/+/, "")
StripLeadingSlashes(s) ==
    IF Len(s) > 0 /\ s[1] = "/" THEN StripLeadingSlashes(Tail(s)) ELSE s

RECURSIVE Spaces(_)
Spaces(n) == IF n <= 0 THEN <<>> ELSE <<" ">> \o Spaces(n - 1)

\* PadEnd padding at the start, as padStart does
PadStart(s, w) == Spaces(w - Len(s)) \o s

\* s.padEnd(w, " "): a width not above the length leaves s as it is
PadEnd(s, w) == s \o Spaces(w - Len(s))

\* new RegExp(src) for the pattern sources of the model: an optional leading
\* ^ followed by literal characters; an unbalanced "(" does not compile.
CompileRegExp(src) ==
    LET anch == Len(src) > 0 /\ src[1] = "^"
    IN  [valid    |-> ~Includes(src, "("),
         anchored |-> anch,
         lit      |-> IF anch THEN Tail(src) ELSE src]

----------------------------------------------------------------------------
\* Inputs of one invocation and answers of the collaborators

\* positional "image" of `images delete`
Images ==
    { <<"m", "y">>,                   \* my        (no tag separator)
      <<"r", ":", "t">>,              \* r:t
      <<"r", ":", "t", ":", "x">>,    \* r:t:x
      <<"r", ":">>,                   \* r:
      <<"h", "/", "r", ":", "t">> }   \* h/r:t

\* --filter: absent, ^a/ and the malformed (
FilterArgs ==
    { [defined |-> FALSE, src |-> <<>>],
      [defined |-> TRUE,  src |-> <<"^", "a", "/">>],
      [defined |-> TRUE,  src |-> <<"(">>] }

\* the account id; config.account_id is either this or unset (empty)
AccountId == <<"a">>
ConfigAccountIds == {AccountId, <<>>}

\* repository paths the registry catalog may hold
RawPaths ==
    { <<"/", "a", "/", "p">>,               \* /a/p
      <<"/", "/", "a", "/", "a", "/", "p">>,\* //a/a/p
      <<"/", "d">>,                         \* /d
      <<"a", "/", "d">> }                   \* a/d

Catalogs == UNION { [1..n -> RawPaths] : n \in 0..MaxRepos }

Sha256 == <<"s", "h", "a", "2", "5", "6">>
TagV1  == <<"v", "1">>
TagV2  == <<"v", "2">>
TagSha == Sha256 \o <<":", "c">>
TagShort == <<"s", "h", "a">>

\* tag arrays a tags/list body may carry
TagLists ==
    { <<>>, <<TagV1>>, <<TagSha>>, <<TagSha, TagV1>>,
      <<TagV2, TagV1>>, <<TagShort, TagSha>> }

Statuses == {200, 404, 500}

\* Response.ok
Ok(status) == status \in 200..299

\* Response.statusText
StatusText(status) ==
    CASE status = 200 -> "OK"
      [] status = 404 -> "Not Found"
      [] OTHER        -> "Internal Server Error"

\* passwords the credential issuance service may hand out
Passwords == {<<"p", "1">>, <<"p", "2">>}

\* Docker-Content-Digest of a HEAD response: absent (null, here the
\* unset marker), empty, or a digest
NoHeader == [present |-> FALSE, value |-> <<>>]
DigestHeaders ==
    { NoHeader,
      [present |-> TRUE, value |-> <<>>],
      [present |-> TRUE, value |-> TagSha] }

\* tags/list responses: status, whether the body parses as JSON, whether the
\* parsed object has a "tags" field, and the field
TagsResponses ==
    { [status |-> 200, json |-> TRUE, hasTags |-> TRUE, tags |-> t] :
          t \in TagLists }
    \cup { [status |-> 200, json |-> TRUE,  hasTags |-> FALSE, tags |-> <<>>],
           [status |-> 404, json |-> TRUE,  hasTags |-> FALSE, tags |-> <<>>],
           [status |-> 500, json |-> FALSE, hasTags |-> FALSE, tags |-> <<>>] }

----------------------------------------------------------------------------
VARIABLES
    pc,         \* position of the running handler
    args,       \* yargs arguments: the command, image, filter, json
    config,     \* config.account_id
    creds,      \* value resolved by getCreds()
    image,      \* deleteTag parameter image
    tag,        \* deleteTag parameter tag
    digest,     \* Docker-Content-Digest read by deleteTag
    repos,      \* result of listRepos
    idx,        \* index in repos of the repository of the running iteration
    accountId,  \* accountId of handleListImagesCommand
    responses,  \* responses of handleListImagesCommand
    calls,      \* requests issued so far, in order
    replies,    \* statuses received so far; replies[i] answers calls[i]
    tagBodies,  \* tags/list responses received so far, in order
    log,        \* logger.log output, in order
    console     \* console.log output, in order

vars == <<pc, args, config, creds, image, tag, digest, repos, idx, accountId,
          responses, calls, replies, tagBodies, log, console>>

NoArgs == [cmd |-> "none", image |-> <<>>,
           filter |-> [defined |-> FALSE, src |-> <<>>], json |-> FALSE]

Init ==
    /\ pc = "idle"
    /\ args = NoArgs
    /\ config = <<>>
    /\ creds = <<>>
    /\ image = <<>>
    /\ tag = <<>>
    /\ digest = NoHeader
    /\ repos = <<>>
    /\ idx = 0
    /\ accountId = <<>>
    /\ responses = <<>>
    /\ calls = <<>>
    /\ replies = <<>>
    /\ tagBodies = <<>>
    /\ log = <<>>
    /\ console = <<>>

\* A request: fetch(url, {method, headers: {Authorization}}) or the call to
\* the credential issuance service
Request(method, endpoint, repo, t, auth) ==
    [method |-> method, endpoint |-> endpoint, repo |-> repo, tag |-> t,
     auth |-> auth]

\* Buffer.from(x).toString("base64"): an injective encoding, kept symbolic
Base64(x) == [b64 |-> x]

\* no Authorization value: the request to the issuance service itself
NoCreds == Base64(<<>>)

\* An Error as it reaches a catch block: which throw it is, and the response
\* status and status text its message interpolates (0 and "" when none)
Err(what, status) ==
    [what |-> what, status |-> status,
     text |-> IF status = 0 THEN "" ELSE StatusText(status)]

\* one logger.log line: its template and the value interpolated
Line(k, v) == [k |-> k, v |-> v]

\* promiseSpinner(promise) settles as the promise does; the catch block of
\* the delete handler logs the rejection and the handler returns
DeleteFails(e) ==
    /\ log' = Append(log, Line("Error when removing image", e))
    /\ pc' = "done"

\* getCreds(): the call to generateImageRegistryCredentials
SendCreds == calls' = Append(calls, Request("POST", "credentials", <<>>, <<>>, NoCreds))

----------------------------------------------------------------------------
\* images delete

\* InvokeDelete with the separator check made after getCreds() was called
InvokeDeleteLateCheck(img) ==
    /\ pc = "idle"
    /\ args' = [NoArgs EXCEPT !.cmd = "delete", !.image = img]
    /\ SendCreds
    /\ IF ~Includes(img, ":")
       THEN DeleteFails(Err("Must provide a tag to delete", 0))
       ELSE /\ pc' = "d_creds"
            /\ UNCHANGED log
    /\ UNCHANGED <<tagBodies, config, creds, image, tag, digest, repos, idx, accountId,
                   responses, replies, console>>

\* handleDeleteImageCommand up to its first suspension
InvokeDelete(img) ==
    /\ pc = "idle"
    /\ args' = [NoArgs EXCEPT !.cmd = "delete", !.image = img]
    /\ IF ~Includes(img, ":")
       THEN /\ DeleteFails(Err("Must provide a tag to delete", 0))
            /\ UNCHANGED calls
       ELSE /\ SendCreds
            /\ pc' = "d_creds"
            /\ UNCHANGED log
    /\ UNCHANGED <<tagBodies, config, creds, image, tag, digest, repos, idx, accountId,
                   responses, replies, console>>

\* [image, tag] = args.image.split(":")
SplitImage(ref) ==
    LET parts == Split(ref, ":")
    IN  [image |-> parts[1], tag |-> parts[2]]

\* getCreds() settles; on success the callback runs up to the HEAD fetch of
\* deleteTag
DeleteCredsSettle(status, password) ==
    /\ pc = "d_creds"
    /\ replies' = Append(replies, status)
    /\ IF ~Ok(status)
       THEN /\ DeleteFails(Err("credentials", status))
            /\ UNCHANGED <<creds, image, tag, calls>>
       ELSE LET c == Base64(<<"v", "1", ":">> \o password)
                r == SplitImage(args.image)
            IN  /\ creds' = c
                /\ image' = r.image
                /\ tag' = r.tag
                /\ calls' = Append(calls,
                       Request("HEAD", "manifests", r.image, r.tag, c))
                /\ pc' = "d_head"
                /\ UNCHANGED log
    /\ UNCHANGED <<tagBodies, args, config, digest, repos, idx, accountId, responses,
                   console>>

\* HeadSettle without the test of the Docker-Content-Digest header
HeadSettleAnyDigest(status, header) ==
    /\ pc = "d_head"
    /\ replies' = Append(replies, status)
    /\ IF ~Ok(status)
       THEN /\ DeleteFails(Err("failed to retrieve tag info", status))
            /\ UNCHANGED <<digest, calls>>
       ELSE /\ digest' = header
            /\ calls' = Append(calls,
                   Request("DELETE", "manifests", image, tag, creds))
            /\ pc' = "d_delete"
            /\ UNCHANGED log
    /\ UNCHANGED <<tagBodies, args, config, creds, image, tag, repos, idx,
                   accountId, responses, console>>

\* deleteTag: the HEAD response arrives; on success the DELETE is fetched
HeadSettle(status, header) ==
    /\ pc = "d_head"
    /\ replies' = Append(replies, status)
    /\ IF ~Ok(status)
       THEN /\ DeleteFails(Err("failed to retrieve tag info", status))
            /\ UNCHANGED <<digest, calls>>
       ELSE IF ~header.present \/ header.value = <<>>
       THEN /\ digest' = header
            /\ DeleteFails(Err("Digest not found for tag", 0))
            /\ UNCHANGED calls
       ELSE /\ digest' = header
            /\ calls' = Append(calls,
                   Request("DELETE", "manifests", image, tag, creds))
            /\ pc' = "d_delete"
            /\ UNCHANGED log
    /\ UNCHANGED <<tagBodies, args, config, creds, image, tag, repos, idx, accountId,
                   responses, console>>

\* DeleteSettle without the deleteResponse.ok check
DeleteSettleUnchecked(status) ==
    /\ pc = "d_delete"
    /\ replies' = Append(replies, status)
    /\ calls' = Append(calls, Request("PUT", "gc", <<>>, <<>>, creds))
    /\ pc' = "d_gc"
    /\ UNCHANGED <<tagBodies, args, config, creds, image, tag, digest, repos, idx,
                   accountId, responses, console, log>>

\* DeleteSettle with the GC request sent without the Authorization value
DeleteSettleNoAuth(status) ==
    /\ pc = "d_delete"
    /\ replies' = Append(replies, status)
    /\ IF ~Ok(status)
       THEN /\ DeleteFails(Err("Failed to delete tag", status))
            /\ UNCHANGED calls
       ELSE /\ calls' = Append(calls, Request("PUT", "gc", <<>>, <<>>, NoCreds))
            /\ pc' = "d_gc"
            /\ UNCHANGED log
    /\ UNCHANGED <<tagBodies, args, config, creds, image, tag, digest, repos,
                   idx, accountId, responses, console>>

\* deleteTag: the DELETE response arrives; on success deleteTag returns and
\* the handler fetches PUT /v2/gc/layers
DeleteSettle(status) ==
    /\ pc = "d_delete"
    /\ replies' = Append(replies, status)
    /\ IF ~Ok(status)
       THEN /\ DeleteFails(Err("Failed to delete tag", status))
            /\ UNCHANGED calls
       ELSE /\ calls' = Append(calls, Request("PUT", "gc", <<>>, <<>>, creds))
            /\ pc' = "d_gc"
            /\ UNCHANGED log
    /\ UNCHANGED <<tagBodies, args, config, creds, image, tag, digest, repos, idx,
                   accountId, responses, console>>

\* GcSettle without the gcResponse.ok check
GcSettleUnchecked(status) ==
    /\ pc = "d_gc"
    /\ replies' = Append(replies, status)
    /\ log' = Append(log, Line("Deleted tag", args.image))
    /\ pc' = "done"
    /\ UNCHANGED <<tagBodies, args, config, creds, image, tag, digest, repos, idx,
                   accountId, responses, calls, console>>

\* GcSettle trying the GC request a second time after a failure
GcSettleRetry(status) ==
    /\ pc = "d_gc"
    /\ replies' = Append(replies, status)
    /\ IF Ok(status)
       THEN /\ log' = Append(log, Line("Deleted tag", args.image))
            /\ pc' = "done"
            /\ UNCHANGED calls
       ELSE IF Len(calls) < 5
       THEN /\ calls' = Append(calls, Request("PUT", "gc", <<>>, <<>>, creds))
            /\ UNCHANGED <<log, pc>>
       ELSE /\ DeleteFails(Err("Failed to delete image", status))
            /\ UNCHANGED calls
    /\ UNCHANGED <<tagBodies, args, config, creds, image, tag, digest, repos,
                   idx, accountId, responses, console>>

\* GcSettle logging the failure without throwing, so that line 110 runs too
GcSettleNoThrow(status) ==
    /\ pc = "d_gc"
    /\ replies' = Append(replies, status)
    /\ log' = (IF ~Ok(status)
               THEN Append(log, Line("Error when removing image",
                                     Err("Failed to delete image", status)))
               ELSE log) \o << Line("Deleted tag", args.image) >>
    /\ pc' = "done"
    /\ UNCHANGED <<tagBodies, args, config, creds, image, tag, digest, repos,
                   idx, accountId, responses, calls, console>>

\* the GC response arrives
GcSettle(status) ==
    /\ pc = "d_gc"
    /\ replies' = Append(replies, status)
    /\ IF ~Ok(status)
       THEN DeleteFails(Err("Failed to delete image", status))
       ELSE /\ log' = Append(log, Line("Deleted tag", args.image))
            /\ pc' = "done"
    /\ UNCHANGED <<tagBodies, args, config, creds, image, tag, digest, repos, idx,
                   accountId, responses, calls, console>>

----------------------------------------------------------------------------
\* images list: rendering

\* KeepTag with the negation lost
KeepTagInverted(t) == StartsWith(t, Sha256)

\* (t) => !t.startsWith("sha256")
KeepTag(t) == ~StartsWith(t, Sha256)

\* the map of ListTags: every record with its digest tags filtered out
DropDigestTags(resps) ==
    [i \in 1..Len(resps) |->
        [name |-> resps[i].name, tags |-> SelectSeq(resps[i].tags, KeepTag)]]

\* HasTags without the length test
HasTagsDefined(resp) == TRUE

\* resp.tags !== undefined && resp.tags.length != 0
HasTags(resp) == Len(resp.tags) # 0

RECURSIVE Rows(_)
\* responses.flatMap((r) => r.tags.map((t) => [r.name, t]))
Rows(resps) ==
    IF resps = <<>> THEN <<>>
    ELSE LET r == Head(resps)
         IN  [i \in 1..Len(r.tags) |-> <<r.name, r.tags[i]>>] \o Rows(Tail(resps))

Headers == << <<"R", "E", "P", "O", "S", "I", "T", "O", "R", "Y">>,
              <<"T", "A", "G">> >>

Max(a, b) == IF a >= b THEN a ELSE b

RECURSIVE MaxLen(_, _, _)
\* rows.map((r) => r[i].length).reduce((a, b) => Math.max(a, b), init)
MaxLen(rows, i, init) ==
    IF rows = <<>> THEN init
    ELSE MaxLen(Tail(rows), i, Max(init, Len(Head(rows)[i])))

\* Widths taken over the data rows only, the header lengths left out
WidthsOfData(rows) ==
    [i \in 1..Len(Headers) |->
        IF i < Len(Headers) THEN MaxLen(rows, i, 0) ELSE 0]

\* widths: the maximum length of each column except the last, which stays 0
Widths(rows) ==
    [i \in 1..Len(Headers) |->
        IF i < Len(Headers) THEN MaxLen(rows, i, Len(Headers[i])) ELSE 0]

RECURSIVE Join(_, _)
\* cells.join(sep)
Join(cells, sep) ==
    IF cells = <<>> THEN <<>>
    ELSE IF Len(cells) = 1 THEN cells[1]
    ELSE cells[1] \o sep \o Join(Tail(cells), sep)

\* row.map((v, i) => v.padEnd(widths[i], " ")).join("  ")
TableLine(row, widths) ==
    Join([i \in 1..Len(row) |-> PadEnd(row[i], widths[i])], <<" ", " ">>)

\* ListTags(responses, digests, json): the lines it logs
ListTags(resps, digests, json) ==
    LET r1 == IF ~digests THEN DropDigestTags(resps) ELSE resps
        r2 == SelectSeq(r1, HasTags)
        rows == Rows(r2)
        widths == Widths(rows)
    IN  IF json
        THEN << Line("json", r2) >>
        ELSE << Line("row", TableLine(Headers, widths)) >>
             \o [i \in 1..Len(rows) |-> Line("row", TableLine(rows[i], widths))]

----------------------------------------------------------------------------
\* images list

\* the catch block of the list handler
ListFails(e) ==
    /\ log' = Append(log, Line("Error listing images", e))
    /\ pc' = "done"

\* handleListImagesCommand up to its first suspension
InvokeList(filter, json, account_id) ==
    /\ pc = "idle"
    /\ args' = [NoArgs EXCEPT !.cmd = "list", !.filter = filter, !.json = json]
    /\ config' = account_id
    /\ SendCreds
    /\ pc' = "l_creds"
    /\ UNCHANGED <<tagBodies, creds, image, tag, digest, repos, idx, accountId,
                   responses, replies, log, console>>

\* getCreds() settles; on success listRepos fetches the catalog
ListCredsSettle(status, password) ==
    /\ pc = "l_creds"
    /\ replies' = Append(replies, status)
    /\ IF ~Ok(status)
       THEN /\ ListFails(Err("credentials", status))
            /\ UNCHANGED <<creds, calls>>
       ELSE LET c == Base64(<<"v", "1", ":">> \o password)
            IN  /\ creds' = c
                /\ calls' = Append(calls,
                       Request("GET", "_catalog", <<>>, <<>>, c))
                /\ pc' = "l_catalog"
                /\ UNCHANGED log
    /\ UNCHANGED <<tagBodies, args, config, image, tag, digest, repos, idx, accountId,
                   responses, console>>

RECURSIVE DisplayNameGlobal(_, _)
\* DisplayName removing the prefix as often as it leads the name
DisplayNameGlobal(stripped, acct) ==
    LET pre == acct \o <<"/">>
    IN  IF StartsWith(stripped, pre)
        THEN DisplayNameGlobal(SubSeq(stripped, Len(pre) + 1, Len(stripped)), acct)
        ELSE stripped

\* DisplayName leaving the stripped path as it is
DisplayNameKept(stripped, acct) == stripped

\* stripped.replace(accountIdPrefix, "")
DisplayName(stripped, acct) ==
    RegexReplace(stripped, CompileRegExp(<<"^">> \o acct \o <<"/">>))

\* Selected testing the display name instead of the stripped path
SelectedByName(filter, repo) ==
    RegexTest(filter, DisplayName(StripLeadingSlashes(repo), AccountId))

\* filter.test(stripped) of the loop
Selected(filter, repo) == RegexTest(filter, StripLeadingSlashes(repo))

RECURSIVE NextSelected(_, _, _)
\* the first index >= i of a repository the loop fetches tags for; 0 if none
NextSelected(rs, filter, i) ==
    IF i > Len(rs) THEN 0
    ELSE IF Selected(filter, rs[i]) THEN i
    ELSE NextSelected(rs, filter, i + 1)

\* RunLoop triggering the layer GC, as the delete handler does, once the
\* listing is rendered
RunLoopThenGc(rs, i, resps, filter) ==
    LET j == NextSelected(rs, filter, i)
    IN  IF j = 0
        THEN /\ log' = log \o ListTags(resps, FALSE, args.json)
             /\ pc' = "done"
             /\ idx' = Len(rs) + 1
             /\ calls' = Append(calls, Request("PUT", "gc", <<>>, <<>>, creds))
        ELSE /\ calls' = Append(calls,
                    Request("GET", "tags/list", StripLeadingSlashes(rs[j]),
                            <<>>, creds))
             /\ pc' = "l_tags"
             /\ idx' = j
             /\ UNCHANGED log

\* the for loop from index i on, with the records collected so far: it runs
\* to the next listTags fetch, or to its end and through ListTags
RunLoop(rs, i, resps, filter) ==
    LET j == NextSelected(rs, filter, i)
    IN  IF j = 0
        THEN /\ log' = log \o ListTags(resps, FALSE, args.json)
             /\ pc' = "done"
             /\ idx' = Len(rs) + 1
             /\ UNCHANGED calls
        ELSE /\ calls' = Append(calls,
                    Request("GET", "tags/list", StripLeadingSlashes(rs[j]),
                            <<>>, creds))
             /\ pc' = "l_tags"
             /\ idx' = j
             /\ UNCHANGED log

\* lines 129-131: both patterns are compiled, then the loop starts
StartLoop(rs) ==
    LET filter == CompileRegExp(args.filter.src)
    IN  IF ~filter.valid
        THEN /\ ListFails(Err("Invalid regular expression", 0))
             /\ UNCHANGED <<calls, idx>>
        ELSE RunLoop(rs, 1, <<>>, filter)

\* CatalogSettle without the response.ok check
CatalogSettleUnchecked(status, hasRepos, body) ==
    /\ pc = "l_catalog"
    /\ replies' = Append(replies, status)
    /\ LET rs == IF hasRepos THEN body ELSE <<>>
       IN  /\ repos' = rs
           /\ UNCHANGED console
           /\ IF config # <<>>
              THEN /\ accountId' = config
                   /\ StartLoop(rs)
              ELSE /\ pc' = "l_account"
                   /\ UNCHANGED <<accountId, calls, idx, log>>
    /\ UNCHANGED <<tagBodies, args, config, creds, image, tag, digest, responses>>

\* listRepos: the catalog response arrives; body.repositories may be absent
CatalogSettle(status, hasRepos, body) ==
    /\ pc = "l_catalog"
    /\ replies' = Append(replies, status)
    /\ IF ~Ok(status)
       THEN /\ console' = Append(console, "{}")
            /\ ListFails(Err("Failed to fetch repository catalog", status))
            /\ UNCHANGED <<repos, accountId, calls, idx>>
       ELSE LET rs == IF hasRepos THEN body ELSE <<>>
            IN  /\ repos' = rs
                /\ UNCHANGED console
                /\ IF config # <<>>
                   THEN /\ accountId' = config
                        /\ StartLoop(rs)
                   ELSE /\ pc' = "l_account"
                        /\ UNCHANGED <<accountId, calls, idx, log>>
    /\ UNCHANGED <<tagBodies, args, config, creds, image, tag, digest, responses>>

\* await getAccountId(config) settles
AccountSettle(ok) ==
    /\ pc = "l_account"
    /\ IF ~ok
       THEN /\ ListFails(Err("getAccountId", 0))
            /\ UNCHANGED <<accountId, calls, idx>>
       ELSE /\ accountId' = AccountId
            /\ StartLoop(repos)
    /\ UNCHANGED <<tagBodies, args, config, creds, image, tag, digest, repos, responses,
                   replies, console>>

\* TagsOf handing the tags back in reverse order
TagsOfReversed(r) ==
    IF r.hasTags THEN [i \in 1..Len(r.tags) |-> r.tags[Len(r.tags) + 1 - i]]
    ELSE <<>>

\* tagsData.tags || []  after  await tagsResponse.json()
TagsOf(r) == IF r.hasTags THEN r.tags ELSE <<>>

\* TagsSettle rejecting a body that has no "tags" field
TagsSettleStrict(r) ==
    /\ pc = "l_tags"
    /\ replies' = Append(replies, r.status)
    /\ tagBodies' = Append(tagBodies, r)
    /\ IF ~r.json \/ ~r.hasTags
       THEN /\ ListFails(Err("SyntaxError", 0))
            /\ UNCHANGED <<responses, calls, idx>>
       ELSE LET stripped == StripLeadingSlashes(repos[idx])
                resps == Append(responses,
                           [name |-> DisplayName(stripped, accountId),
                            tags |-> TagsOf(r)])
            IN  /\ responses' = resps
                /\ RunLoop(repos, idx + 1, resps,
                           CompileRegExp(args.filter.src))
    /\ UNCHANGED <<args, config, creds, image, tag, digest, repos, accountId,
                   console>>

\* listTags: the tags/list response arrives; the record is pushed and the
\* loop goes on
TagsSettle(r) ==
    /\ pc = "l_tags"
    /\ replies' = Append(replies, r.status)
    /\ tagBodies' = Append(tagBodies, r)
    /\ IF ~r.json
       THEN /\ ListFails(Err("SyntaxError", 0))
            /\ UNCHANGED <<responses, calls, idx>>
       ELSE LET stripped == StripLeadingSlashes(repos[idx])
                resps == Append(responses,
                           [name |-> DisplayName(stripped, accountId),
                            tags |-> TagsOf(r)])
            IN  /\ responses' = resps
                /\ RunLoop(repos, idx + 1, resps,
                           CompileRegExp(args.filter.src))
    /\ UNCHANGED <<args, config, creds, image, tag, digest, repos, accountId,
                   console>>

----------------------------------------------------------------------------
Next ==
    \/ \E img \in Images : InvokeDelete(img)
    \/ \E s \in Statuses, p \in Passwords : DeleteCredsSettle(s, p)
    \/ \E s \in Statuses, h \in DigestHeaders : HeadSettle(s, h)
    \/ \E s \in Statuses : DeleteSettle(s)
    \/ \E s \in Statuses : GcSettle(s)
    \/ \E f \in FilterArgs, j \in BOOLEAN, a \in ConfigAccountIds :
           InvokeList(f, j, a)
    \/ \E s \in Statuses, p \in Passwords : ListCredsSettle(s, p)
    \/ \E s \in Statuses, h \in BOOLEAN, b \in Catalogs : CatalogSettle(s, h, b)
    \/ \E ok \in BOOLEAN : AccountSettle(ok)
    \/ \E r \in TagsResponses : TagsSettle(r)

Spec == Init /\ [][Next]_vars

----------------------------------------------------------------------------
\* Properties of images delete

\* indices of the requests that were answered
Answered == 1..Len(replies)

\* the single line the delete handler logs for the error e
DeleteErrorLog(e) == << Line("Error when removing image", e) >>

\* C1: a delete invocation whose image reference has no ":" ends with the
\* validation error as its only output and has issued no request of any
\* kind (no credential issuance, no HEAD, no DELETE, no GC PUT).
C1_NoSeparatorNoCall ==
    (args.cmd = "delete" /\ ~(\E i \in 1..Len(args.image) : args.image[i] = ":"))
        => /\ calls = <<>>
           /\ replies = <<>>
           /\ pc = "done"
           /\ log = DeleteErrorLog(Err("Must provide a tag to delete", 0))

C1_Witness ==
    /\ args.cmd = "delete"
    /\ args.image = <<"m", "y">>
    /\ pc = "done"
    /\ Len(log) = 1

\* C2: the GC request directly follows a manifest DELETE of this invocation
\* that was answered 2xx; after a failed HEAD, a HEAD without digest or a
\* failed DELETE the handler has ended with that error and no GC request.
C2_GcOnlyAfterDelete ==
    /\ \A i \in 1..Len(calls) :
           calls[i].endpoint = "gc"
               => /\ i > 1
                  /\ calls[i - 1].method = "DELETE"
                  /\ replies[i - 1] \in 200..299
    /\ \A i \in Answered :
           (calls[i].endpoint = "manifests" /\ replies[i] \notin 200..299)
               => /\ \A j \in 1..Len(calls) : calls[j].endpoint # "gc"
                  /\ i = Len(calls)
                  /\ pc = "done"
                  /\ log = DeleteErrorLog(Err(
                         IF calls[i].method = "HEAD"
                         THEN "failed to retrieve tag info"
                         ELSE "Failed to delete tag", replies[i]))
    /\ (/\ pc = "done"
        /\ Len(calls) > 0
        /\ calls[Len(calls)].method = "HEAD"
        /\ replies[Len(calls)] \in 200..299)
           => log = DeleteErrorLog(Err("Digest not found for tag", 0))

C2_Witness ==
    /\ pc = "done"
    /\ Len(calls) = 3
    /\ calls[3].method = "DELETE"
    /\ replies[2] = 200
    /\ replies[3] = 404

\* C3: when the GC request is answered non-2xx (after HEAD and DELETE
\* succeeded) the only output is the error line carrying that status; the
\* line "Deleted tag" is not logged.
C3_GcFailureReported ==
    \A i \in Answered :
        (calls[i].endpoint = "gc" /\ replies[i] \notin 200..299)
            => /\ pc = "done"
               /\ log = DeleteErrorLog(Err("Failed to delete image", replies[i]))
               /\ \A k \in 1..Len(log) : log[k].k # "Deleted tag"

C3_Witness ==
    /\ Len(replies) = 4
    /\ calls[4].endpoint = "gc"
    /\ replies[2] = 200
    /\ replies[3] = 200
    /\ replies[4] = 500

\* C4: the HEAD and DELETE requests address the text before the first ":"
\* of the image reference as repository and everything after the first ":"
\* as tag.
C4_SplitOnFirstSeparator ==
    \A i \in 1..Len(calls) :
        calls[i].endpoint = "manifests"
            => LET ref == args.image
                   k == CHOOSE n \in 1..Len(ref) :
                            /\ ref[n] = ":"
                            /\ \A m \in 1..(n - 1) : ref[m] # ":"
               IN  /\ calls[i].repo = SubSeq(ref, 1, k - 1)
                   /\ calls[i].tag = SubSeq(ref, k + 1, Len(ref))

----------------------------------------------------------------------------
\* Properties of images list

\* t starts with the six characters sha256
IsDigestTag(t) ==
    /\ Len(t) >= 6
    /\ SubSeq(t, 1, 6) = <<"s", "h", "a", "2", "5", "6">>

\* a listing was rendered: the log starts with the JSON document or with
\* the table header
Rendered == Len(log) > 0 /\ log[1].k \in {"json", "row"}

\* width of the repository column, read off the header line
\* "REPOSITORY<padding>  TAG"
ColumnWidth == Len(log[1].v) - 5

\* the TAG cell of a table line
RowTag(line) == SubSeq(line, ColumnWidth + 3, Len(line))

\* the REPOSITORY cell of a table line, without its padding
RowName(line) ==
    LET n == CHOOSE m \in 0..ColumnWidth :
                 /\ \A q \in (m + 1)..ColumnWidth : line[q] = " "
                 /\ (m > 0 => line[m] # " ")
    IN  SubSeq(line, 1, n)

\* the (name, tag) entries of the rendered output
Entries ==
    IF ~Rendered THEN {}
    ELSE IF log[1].k = "json"
    THEN UNION { { <<log[1].v[e].name, log[1].v[e].tags[t]>> :
                       t \in 1..Len(log[1].v[e].tags) } :
                 e \in 1..Len(log[1].v) }
    ELSE { <<RowName(log[n].v), RowTag(log[n].v)>> : n \in 2..Len(log) }

\* the repository names present in the rendered output
OutputNames ==
    IF ~Rendered THEN {}
    ELSE IF log[1].k = "json"
    THEN { log[1].v[e].name : e \in 1..Len(log[1].v) }
    ELSE { RowName(log[n].v) : n \in 2..Len(log) }

\* C5: whatever the catalog and the tag lists, no entry of the rendered
\* listing (JSON or table) has a tag that starts with sha256.
C5_NoDigestTagRendered ==
    \A e \in Entries : ~IsDigestTag(e[2])

C5_Witness ==
    /\ pc = "done"
    /\ Rendered
    /\ log[1].k = "row"
    /\ Len(log) >= 2
    /\ \E k \in 1..Len(responses) :
           \E t \in 1..Len(responses[k].tags) :
               IsDigestTag(responses[k].tags[t])

\* some tag of the record r is not a digest tag
Survives(r) == \E t \in 1..Len(r.tags) : ~IsDigestTag(r.tags[t])

\* C6: no record with an empty tag sequence is in the JSON output, and a
\* repository name none of whose records keeps a tag after digest-tag
\* exclusion is in neither the JSON output nor the table.
C6_NoEmptyRecordRendered ==
    /\ (Rendered /\ log[1].k = "json")
           => \A e \in 1..Len(log[1].v) : log[1].v[e].tags # <<>>
    /\ Rendered
           => \A k \in 1..Len(responses) :
                  (\A q \in 1..Len(responses) :
                       responses[q].name = responses[k].name
                           => ~Survives(responses[q]))
                      => responses[k].name \notin OutputNames

C6_Witness ==
    /\ pc = "done"
    /\ Rendered
    /\ log[1].k = "json"
    /\ Len(log[1].v) = 1
    /\ \E k \in 1..Len(responses) :
           /\ responses[k].tags # <<>>
           /\ ~Survives(responses[k])

\* the display name the raw catalog path is to get: all leading slashes
\* removed, then the account id and "/" removed if they lead the rest
ExpectedDisplay(raw, acct) ==
    LET n == CHOOSE m \in 0..Len(raw) :
                 /\ \A q \in 1..m : raw[q] = "/"
                 /\ (m < Len(raw) => raw[m + 1] # "/")
        str == SubSeq(raw, n + 1, Len(raw))
        pre == acct \o <<"/">>
    IN  IF Len(str) >= Len(pre) /\ SubSeq(str, 1, Len(pre)) = pre
        THEN SubSeq(str, Len(pre) + 1, Len(str))
        ELSE str

\* C7: the record pushed for a raw path with a leading slash carries the
\* path without its leading slashes and without one leading occurrence of
\* "<account id>/" (a later occurrence stays), and every name in the
\* rendered output is the name of such a record.
C7_DisplayName ==
    [][ /\ (Len(responses') = Len(responses) + 1 /\ repos[idx][1] = "/")
            => responses'[Len(responses')].name
                   = ExpectedDisplay(repos[idx], accountId)
        /\ \A nm \in OutputNames' :
               \E k \in 1..Len(responses') : nm = responses'[k].name
      ]_vars

C7_Witness ==
    /\ pc = "done"
    /\ Rendered
    /\ \E j \in 1..Len(repos) :
           repos[j] = <<"/", "/", "a", "/", "a", "/", "p">>
    /\ <<"a", "/", "p">> \in OutputNames

\* the filter pattern matches s (the patterns of the model are absent or
\* "^" followed by literal text)
FilterMatches(f, s) ==
    IF ~f.defined THEN TRUE
    ELSE LET lit == Tail(f.src)
         IN  Len(s) >= Len(lit) /\ SubSeq(s, 1, Len(lit)) = lit

\* path without its leading slashes
Unslashed(raw) ==
    LET n == CHOOSE m \in 0..Len(raw) :
                 /\ \A q \in 1..m : raw[q] = "/"
                 /\ (m < Len(raw) => raw[m + 1] # "/")
    IN  SubSeq(raw, n + 1, Len(raw))

RECURSIVE ExpectedFetches(_, _)
\* the matching unslashed paths among the first n catalog entries, in order
ExpectedFetches(n, f) ==
    IF n = 0 THEN <<>>
    ELSE LET str == Unslashed(repos[n])
         IN  ExpectedFetches(n - 1, f)
                 \o (IF FilterMatches(f, str) THEN <<str>> ELSE <<>>)

IsTagsCall(c) == c.endpoint = "tags/list"

\* repositories of the tags/list requests issued so far, in order
FetchedRepos ==
    LET cs == SelectSeq(calls, IsTagsCall)
    IN  [i \in 1..Len(cs) |-> cs[i].repo]

\* C8: of the catalog entries the loop has reached, exactly those whose
\* unslashed path (account-id prefix included) matches the filter had a
\* tags/list request, one each and in order; there are no more records than
\* such requests, and the rendered names all come from matching entries.
C8_FetchIffFilterMatches ==
    (args.cmd = "list" /\ idx > 0)
        => LET n == IF idx > Len(repos) THEN Len(repos) ELSE idx
           IN  /\ FetchedRepos = ExpectedFetches(n, args.filter)
               /\ Len(responses) <= Len(FetchedRepos)
               /\ \A nm \in OutputNames :
                      \E j \in 1..Len(repos) :
                          /\ FilterMatches(args.filter, Unslashed(repos[j]))
                          /\ nm = ExpectedDisplay(repos[j], accountId)

C8_Witness ==
    /\ pc = "done"
    /\ Rendered
    /\ args.filter.defined
    /\ repos = << <<"a", "/", "d">>, <<"/", "d">> >>
    /\ FetchedRepos = << <<"a", "/", "d">> >>
    /\ OutputNames = { <<"d">> }

\* C9: when the catalog request is answered non-2xx, the only output of the
\* list handler is the error line with that status and its status text; no
\* tags/list request was issued and no listing was rendered.
C9_CatalogFailure ==
    \A i \in Answered :
        (calls[i].endpoint = "_catalog" /\ replies[i] \notin 200..299)
            => /\ pc = "done"
               /\ log = << Line("Error listing images",
                               [what |-> "Failed to fetch repository catalog",
                                status |-> replies[i],
                                text |-> StatusText(replies[i])]) >>
               /\ ~Rendered
               /\ FetchedRepos = <<>>
               /\ i = Len(calls)

C9_Witness ==
    /\ pc = "done"
    /\ Len(replies) = 2
    /\ calls[2].endpoint = "_catalog"
    /\ replies[2] = 500
    /\ Len(log) = 1

\* C10: every request answered non-2xx ends the invocation with an error
\* line that carries that status; a non-2xx tags/list answer is not taken
\* for an empty tag list.
C10_NonOkFailsWithStatus ==
    \A i \in Answered :
        replies[i] \notin 200..299
            => /\ pc = "done"
               /\ Len(log) = 1
               /\ log[1].k \in {"Error listing images",
                                "Error when removing image"}
               /\ log[1].v.status = replies[i]

----------------------------------------------------------------------------
\* ListTags on its own: the records are drawn freely, as a registry can
\* make handleListImagesCommand collect any of them, and ListTags is
\* applied to them as line 141 applies it.

\* Longest record sequence handed to ListTags.
MaxRecords == 2

NameA == <<"a">>
NameBB == <<"b", "b">>
NameLong == <<"l", "o", "n", "g", "-", "r", "e", "p", "o", "-", "1">>
TagX == <<"x">>
TagYY == <<"y", "y">>

RenderRecords ==
    { [name |-> n, tags |-> t] :
        n \in {NameA, NameBB, NameLong},
        t \in { <<>>, <<TagX>>, <<TagYY>>, <<TagSha, TagX>>, <<TagYY, TagX>> } }

RenderInputs == UNION { [1..n -> RenderRecords] : n \in 0..MaxRecords }

RenderInit ==
    /\ pc = "render"
    /\ \E j \in BOOLEAN : args = [NoArgs EXCEPT !.cmd = "list", !.json = j]
    /\ responses \in RenderInputs
    /\ config = <<>>
    /\ creds = <<>>
    /\ image = <<>>
    /\ tag = <<>>
    /\ digest = NoHeader
    /\ repos = <<>>
    /\ idx = 0
    /\ accountId = <<>>
    /\ calls = <<>>
    /\ replies = <<>>
    /\ tagBodies = <<>>
    /\ log = <<>>
    /\ console = <<>>

\* await ListTags(responses, false, args.json)
Render ==
    /\ pc = "render"
    /\ log' = log \o ListTags(responses, FALSE, args.json)
    /\ pc' = "done"
    /\ UNCHANGED <<args, config, creds, image, tag, digest, repos, idx,
                   accountId, responses, calls, replies, tagBodies, console>>

RenderNext == Render

RenderSpec == RenderInit /\ [][RenderNext]_vars

----------------------------------------------------------------------------
\* Properties of the table rendering

\* n spaces
Blank(n) == [i \in 1..n |-> " "]

HeaderText == <<"R", "E", "P", "O", "S", "I", "T", "O", "R", "Y">>
TagText == <<"T", "A", "G">>

\* the two records of the example
ExampleRecords ==
    << [name |-> <<"a">>, tags |-> << <<"x">> >>],
       [name |-> <<"b", "b">>, tags |-> << <<"y", "y">> >>] >>

ExampleRendered ==
    /\ pc = "done"
    /\ ~args.json
    /\ responses = ExampleRecords

\* C11 as stated: the example renders as the header "REPOSITORY  TAG" and
\* the rows "a   x" and "bb  yy", the repository column being 2 wide.
C11_ExampleWidthTwo ==
    ExampleRendered
        => log = << Line("row", HeaderText \o Blank(2) \o TagText),
                    Line("row", <<"a">> \o Blank(3) \o <<"x">>),
                    Line("row", <<"b", "b">> \o Blank(2) \o <<"y", "y">>) >>

\* C11 amended: the example renders as the header "REPOSITORY  TAG" and the
\* rows "a" and "bb" padded to width 10 (the length of "REPOSITORY"), two
\* spaces, then "x" and "yy".
C11_ExampleWidthTen ==
    ExampleRendered
        => log = << Line("row", HeaderText \o Blank(2) \o TagText),
                    Line("row", <<"a">> \o Blank(9) \o Blank(2) \o <<"x">>),
                    Line("row", <<"b", "b">> \o Blank(8) \o Blank(2)
                                    \o <<"y", "y">>) >>

C11_Witness ==
    /\ ExampleRendered
    /\ Len(log) = 3
    /\ Len(log[2].v) = 13

----------------------------------------------------------------------------
\* Properties of the order of requests and records

NotDigestTag(t) == ~IsDigestTag(t)

NonEmptyRecord(r) == r.tags # <<>>

\* the records as they are to be listed: in their order, each with its
\* non-digest tags in their order, those left without a tag dropped
ExpectedOutput(resps) ==
    SelectSeq([i \in 1..Len(resps) |->
                  [name |-> resps[i].name,
                   tags |-> SelectSeq(resps[i].tags, NotDigestTag)]],
              NonEmptyRecord)

RECURSIVE ExpectedRows(_)
\* the (name, tag) pairs of the records, record by record, tag by tag
ExpectedRows(out) ==
    IF out = <<>> THEN <<>>
    ELSE [t \in 1..Len(out[1].tags) |-> <<out[1].name, out[1].tags[t]>>]
             \o ExpectedRows(Tail(out))

\* the tags a tags/list body carries; none when the field is absent
BodyTags(b) == IF b.hasTags THEN b.tags ELSE <<>>

\* C12: in a list invocation at most one request is unanswered at any time;
\* the tags/list requests follow the catalog order; the k-th record is that
\* of the k-th tags/list request and carries the tags of its response in
\* the order received; the JSON document and the table rows keep the order
\* of the records and of their tags, nothing sorted, moved or repeated.
C12_SequentialAndOrdered ==
    args.cmd = "list"
        => /\ Len(calls) - Len(replies) \in {0, 1}
           /\ idx > 0
                  => FetchedRepos
                         = ExpectedFetches(IF idx > Len(repos) THEN Len(repos)
                                           ELSE idx, args.filter)
           /\ Len(responses) <= Len(tagBodies)
           /\ \A k \in 1..Len(responses) :
                  /\ responses[k].tags = BodyTags(tagBodies[k])
                  /\ responses[k].name
                         = ExpectedDisplay(FetchedRepos[k], accountId)
           /\ (Rendered /\ log[1].k = "json")
                  => /\ Len(log) = 1
                     /\ log[1].v = ExpectedOutput(responses)
           /\ (Rendered /\ log[1].k = "row")
                  => [n \in 1..(Len(log) - 1) |->
                          <<RowName(log[n + 1].v), RowTag(log[n + 1].v)>>]
                         = ExpectedRows(ExpectedOutput(responses))

C12_Witness ==
    /\ pc = "done"
    /\ Rendered
    /\ log[1].k = "row"
    /\ repos = << <<"/", "d">>, <<"/", "a", "/", "p">> >>
    /\ Len(tagBodies) = 2
    /\ tagBodies[1].tags = <<TagV2, TagV1>>
    /\ tagBodies[2].tags = <<TagSha, TagV1>>
    /\ Len(log) = 4

----------------------------------------------------------------------------
\* Properties of the delete sequence

\* method and endpoint of the steps of a delete, in their order
DeleteSteps ==
    << <<"POST", "credentials">>, <<"HEAD", "manifests">>,
       <<"DELETE", "manifests">>, <<"PUT", "gc">> >>

\* C13: the requests of a delete invocation are a prefix of credential
\* issuance, HEAD, DELETE, GC PUT; each but the first is issued only after
\* its predecessor was answered 2xx; the DELETE is issued only after a HEAD
\* with a non-empty Docker-Content-Digest, and addresses the repository and
\* tag of the HEAD, not the digest.
C13_DeleteStepOrder ==
    args.cmd = "delete"
        => /\ Len(calls) <= 4
           /\ \A i \in 1..Len(calls) :
                  /\ <<calls[i].method, calls[i].endpoint>> = DeleteSteps[i]
                  /\ i > 1 => /\ Len(replies) >= i - 1
                              /\ replies[i - 1] \in 200..299
           /\ Len(calls) >= 3
                  => /\ digest.present
                     /\ digest.value # <<>>
                     /\ calls[3].repo = calls[2].repo
                     /\ calls[3].tag = calls[2].tag
                     /\ calls[3].tag # digest.value
           /\ (pc = "done" /\ Len(calls) = 2 /\ replies[2] \in 200..299)
                  => ~digest.present \/ digest.value = <<>>

C13_Witness ==
    /\ args.cmd = "delete"
    /\ pc = "done"
    /\ Len(calls) = 2
    /\ replies = <<200, 200>>
    /\ log = DeleteErrorLog(Err("Digest not found for tag", 0))

----------------------------------------------------------------------------
\* Properties of the number of attempts

\* how many requests were issued with this method and endpoint
Issued(method, endpoint) ==
    Cardinality({ i \in 1..Len(calls) :
                      calls[i].method = method /\ calls[i].endpoint = endpoint })

\* C14: an invocation issues at most one credential request, one HEAD, one
\* DELETE, one GC PUT and one catalog GET; for every repository path, no
\* more tags/list GETs than the catalog has entries of that path; and after
\* a non-2xx answer to anything but a tags/list request nothing more is
\* issued, so no failed request is sent again.
C14_SingleAttempt ==
    /\ Issued("POST", "credentials") <= 1
    /\ Issued("HEAD", "manifests") <= 1
    /\ Issued("DELETE", "manifests") <= 1
    /\ Issued("PUT", "gc") <= 1
    /\ Issued("GET", "_catalog") <= 1
    /\ \A i \in 1..Len(calls) :
           calls[i].endpoint = "tags/list"
               => Cardinality({ j \in 1..Len(calls) :
                                    /\ calls[j].endpoint = "tags/list"
                                    /\ calls[j].repo = calls[i].repo })
                      <= Cardinality({ j \in 1..Len(repos) :
                                           Unslashed(repos[j]) = calls[i].repo })
    /\ \A i \in Answered :
           (replies[i] \notin 200..299 /\ calls[i].endpoint # "tags/list")
               => i = Len(calls)
    /\ Len(calls) <= Len(repos) + 4

C14_Witness ==
    /\ args.cmd = "delete"
    /\ pc = "done"
    /\ Len(calls) = 2
    /\ replies = <<200, 404>>

----------------------------------------------------------------------------
\* Properties of the credential

\* the Authorization values getCreds() can resolve to
IssuableCreds == { [b64 |-> <<"v", "1", ":">> \o p] : p \in Passwords }

----------------------------------------------------------------------------
\* Properties of a tags/list body without a "tags" field

\* the k-th tags/list response parsed as JSON and had no "tags" field
NoTagsField(k) == tagBodies[k].json /\ ~tagBodies[k].hasTags

\* C16: a tags/list body without a "tags" field gives its repository a
\* record with no tags and does not end the list: right after it the next
\* tags/list request is outstanding or the listing was rendered; the
\* rendered entries are exactly the non-digest tags of the records, so the
\* repository is not listed (unless another record of the same name has
\* tags) and the other records are listed in full.
C16_AbsentTagsFieldIsEmpty ==
    /\ \A k \in 1..Len(tagBodies) :
           NoTagsField(k)
               => /\ Len(responses) >= k
                  /\ responses[k].tags = <<>>
                  /\ k = Len(tagBodies) => (pc = "l_tags" \/ (pc = "done" /\ Rendered))
                  /\ Rendered
                         => \/ responses[k].name \notin OutputNames
                            \/ \E q \in 1..Len(responses) :
                                   /\ responses[q].name = responses[k].name
                                   /\ Survives(responses[q])
    /\ Rendered
           => Entries = UNION { { <<responses[q].name, responses[q].tags[t]>> :
                                      t \in { u \in 1..Len(responses[q].tags) :
                                                  ~IsDigestTag(responses[q].tags[u]) } } :
                                q \in 1..Len(responses) }

C16_Witness ==
    /\ pc = "done"
    /\ Rendered
    /\ Len(tagBodies) = 2
    /\ NoTagsField(1)
    /\ tagBodies[1].status = 200
    /\ responses[2].tags = <<TagV1>>
    /\ responses[1].name # responses[2].name
    /\ OutputNames = { responses[2].name }

----------------------------------------------------------------------------
\* Properties of the account-id prefix in display names

\* the account id followed by "/"
Prefix == accountId \o <<"/">>

\* s holds p at position i
HoldsAt(s, p, i) ==
    /\ i + Len(p) - 1 <= Len(s)
    /\ SubSeq(s, i, i + Len(p) - 1) = p

\* C17 as stated: no repository name in the rendered output contains the
\* account id followed by "/".
C17_NoPrefixInName ==
    \A nm \in OutputNames : \A i \in 1..Len(nm) : ~HoldsAt(nm, Prefix, i)

\* C17 amended: a repository name in the rendered output starts with the
\* account id followed by "/" only if it is the name of a record whose
\* slash-stripped catalog path started with that prefix twice in a row;
\* one leading occurrence is removed and any further one stays.
C17_OneLeadingPrefixRemoved ==
    \A nm \in OutputNames :
        HoldsAt(nm, Prefix, 1)
            => \E k \in 1..Len(responses) :
                   /\ responses[k].name = nm
                   /\ HoldsAt(FetchedRepos[k], Prefix \o Prefix, 1)

C17_Witness ==
    /\ pc = "done"
    /\ Rendered
    /\ OutputNames = { <<"p">>, <<"a", "/", "p">> }
    /\ FetchedRepos = << <<"a", "/", "p">>, <<"a", "/", "a", "/", "p">> >>

----------------------------------------------------------------------------
\* Properties of the column layout

\* the rows a table of the collected records is to have
TableRows == ExpectedRows(ExpectedOutput(responses))

\* the largest of the length of "REPOSITORY" and of the names in the rows
NameWidth ==
    LET lens == {Len(HeaderText)} \cup { Len(TableRows[n][1]) : n \in 1..Len(TableRows) }
    IN  CHOOSE w \in lens : \A v \in lens : v <= w

\* C18: in table mode the lines are the header and then one line per
\* (repository, tag) pair in record order and tag order; the repository
\* cell of every line is followed by spaces up to the largest length among
\* "REPOSITORY" and the names in the rows, then by two spaces and the
\* unpadded last cell, so that TAG and every tag start at the same offset.
C18_ColumnLayout ==
    (pc = "done" /\ ~args.json)
        => /\ Len(log) = 1 + Len(TableRows)
           /\ log[1] = Line("row", HeaderText
                                       \o Blank(NameWidth - Len(HeaderText))
                                       \o Blank(2) \o TagText)
           /\ \A n \in 1..Len(TableRows) :
                  /\ log[n + 1].k = "row"
                  /\ log[n + 1].v = TableRows[n][1]
                                        \o Blank(NameWidth - Len(TableRows[n][1]))
                                        \o Blank(2) \o TableRows[n][2]
                  /\ SubSeq(log[n + 1].v, NameWidth + 3, Len(log[n + 1].v))
                         = TableRows[n][2]

C18_Witness ==
    /\ pc = "done"
    /\ ~args.json
    /\ Len(responses) = 2
    /\ responses[1] = [name |-> NameLong, tags |-> <<TagYY, TagX>>]
    /\ responses[2] = [name |-> NameA, tags |-> <<TagSha, TagX>>]
    /\ Len(log) = 4
    /\ Len(log[1].v) = 16
    /\ Len(log[4].v) = 14

----------------------------------------------------------------------------
\* Properties of the outcome report

\* the log is one error line
ErrorReported ==
    /\ Len(log) = 1
    /\ log[1].k \in {"Error when removing image", "Error listing images"}

\* the log is the success output of the command: the "Deleted tag" line, or
\* the JSON document, or the table header and rows
SuccessReported ==
    /\ Len(log) >= 1
    /\ IF args.cmd = "delete"
       THEN log = << Line("Deleted tag", args.image) >>
       ELSE /\ \A n \in 1..Len(log) : log[n].k = log[1].k
            /\ log[1].k \in {"json", "row"}
            /\ log[1].k = "json" => Len(log) = 1

OneOutcome ==
    /\ pc # "done" => log = <<>>
    /\ pc = "done" => /\ ErrorReported \/ SuccessReported
                      /\ ~(ErrorReported /\ SuccessReported)
    /\ (args.cmd = "delete" /\ SuccessReported)
           => /\ Len(calls) = 4
              /\ \A i \in 1..4 : replies[i] \in 200..299
              /\ <<calls[2].method, calls[3].method, calls[4].method>>
                     = <<"HEAD", "DELETE", "PUT">>

\* the handler is suspended on an await
Running == pc \notin {"idle", "done", "render"}

\* the awaited promise settles with a failure: a 500, a body that is not
\* JSON, a rejection of getAccountId
SettleFailing ==
    \/ DeleteCredsSettle(500, <<>>)
    \/ HeadSettle(500, NoHeader)
    \/ DeleteSettle(500)
    \/ GcSettle(500)
    \/ ListCredsSettle(500, <<>>)
    \/ CatalogSettle(500, FALSE, <<>>)
    \/ AccountSettle(FALSE)
    \/ TagsSettle([status |-> 500, json |-> FALSE, hasTags |-> FALSE,
                   tags |-> <<>>])

\* C19: nothing is reported while an invocation runs; when it has ended the
\* log holds either its success output or one error line, not both and not
\* neither; "Deleted tag" is logged only after HEAD, DELETE and GC were
\* answered 2xx. An invocation ends: while it runs, the awaited promise
\* settling (were it with a failure) resumes it, each resumption but that of
\* getAccountId consumes one answer, and there are at most as many answers
\* as catalog entries plus four.
C19_ExactlyOneOutcome ==
    /\ []OneOutcome
    /\ [](Running => ENABLED SettleFailing)
    /\ [](Len(replies) <= Len(repos) + 4)
    /\ [][Running => \/ Len(replies') = Len(replies) + 1
                     \/ (pc = "l_account" /\ pc' # "l_account")]_vars

C19_Witness ==
    /\ pc = "done"
    /\ args.cmd = "list"
    /\ SuccessReported
    /\ log[1].k = "json"
    /\ Len(tagBodies) = 2
    /\ Len(log[1].v) = 2

----------------------------------------------------------------------------
\* Properties of the effect of listing on the registry

\* C20: whatever the catalog, the filter and the failures, the requests of
\* a list invocation are the credential request followed by GETs of the
\* catalog and of tag lists only: no HEAD, no manifest DELETE and no GC PUT
\* reaches the registry, which listing therefore leaves as it was.
C20_ListIsReadOnly ==
    args.cmd = "list"
        => \A i \in 1..Len(calls) :
               IF i = 1
               THEN calls[i].endpoint = "credentials"
               ELSE /\ calls[i].method = "GET"
                    /\ calls[i].endpoint \in {"_catalog", "tags/list"}
                    /\ calls[i].method \notin {"DELETE", "PUT", "HEAD", "POST"}
                    /\ calls[i].endpoint \notin {"gc", "manifests"}

C20_Witness ==
    /\ args.cmd = "list"
    /\ pc = "done"
    /\ Len(calls) = 4
    /\ replies = <<200, 200, 200, 404>>
    /\ \A i \in 2..4 : calls[i].method = "GET"

====
